---- MODULE Spec2Model ----
(***************************************************************************)
(* Process lifecycle manager of aigonviewer (src/process_manager.py) and   *)
(* the exit statuses of its command line (src/cli.py).                     *)
(*                                                                         *)
(* The shared state is the PID directory (one record file per port), the   *)
(* process table and the set of bound loopback ports.  Every invocation of *)
(* the command line is a short-lived process that walks through            *)
(* launch_server, status_server or kill_server one system call at a time.  *)
(***************************************************************************)
EXTENDS Integers, Sequences, FiniteSets, TLC

\* ------------------------------------------------------------------ bounds
BasePort == 4444
MaxAttempts == 2
MaxPid == 3
MaxOps == 3
NumInv == 2

\* launch is asked for the default port (cli.py:70) and probes MaxAttempts ports.
ReqPorts == {BasePort}
Ports == BasePort .. (BasePort + MaxAttempts - 1)
\* PID 1 is init and never a viewer; processes get PIDs 2 .. MaxPid.
PIDs == 2 .. MaxPid
Invs == 1 .. NumInv

NoPort == -1
NoPid == 0

\* socket.bind accepts ports 0..65535 and raises OverflowError, which is not an
\* OSError, for any other number; PortOverflow stands for that exception leaving
\* find_available_port.
MaxTcpPort == 65535
PortOverflow == -2

\* ------------------------------------------------------- record file text
Digits == <<"0", "1", "2", "3", "4", "5", "6", "7", "8", "9">>

RECURSIVE NatStr(_)
NatStr(n) == IF n < 10 THEN <<Digits[n + 1]>>
             ELSE NatStr(n \div 10) \o <<Digits[(n % 10) + 1]>>

\* str(process.pid), process_manager.py:250
PidText(n) == IF n < 0 THEN <<"-">> \o NatStr(-n) ELSE NatStr(n)

IsDigit(c) == \E k \in 1..10 : Digits[k] = c
DigitVal(c) == (CHOOSE k \in 1..10 : Digits[k] = c) - 1

RECURSIVE LStrip(_)
LStrip(s) == IF s # <<>> /\ Head(s) = " " THEN LStrip(Tail(s)) ELSE s

RECURSIVE RStrip(_)
RStrip(s) == IF s # <<>> /\ s[Len(s)] = " " THEN RStrip(SubSeq(s, 1, Len(s) - 1)) ELSE s

\* str.strip()
Strip(s) == RStrip(LStrip(s))

RECURSIVE DigitsVal(_)
DigitsVal(s) == IF s = <<>> THEN 0
                ELSE 10 * DigitsVal(SubSeq(s, 1, Len(s) - 1)) + DigitVal(s[Len(s)])

AllDigits(s) == s # <<>> /\ \A k \in 1..Len(s) : IsDigit(s[k])

\* int(text.strip()): ok = FALSE stands for ValueError.  A sign is accepted.
ParseInt(text) ==
    LET s == Strip(text)
        signed == s # <<>> /\ Head(s) \in {"-", "+"}
        body == IF signed THEN Tail(s) ELSE s
    IN IF AllDigits(body)
       THEN [ok |-> TRUE,
             val |-> IF signed /\ Head(s) = "-" THEN -DigitsVal(body) ELSE DigitsVal(body)]
       ELSE [ok |-> FALSE, val |-> 0]

\* A record file that does not exist.
NoFile == <<"ENOENT">>

\* Texts a record may hold before the first invocation: a PID written by an
\* earlier launch, an empty (malformed) file.
InitTexts == {PidText(p) : p \in PIDs} \cup {<<>>}

\* f"fileserver.{port}.pid": the port as the file name spells it.
PortText(port) == NatStr(port)

\* ------------------------------------------------------------------- state
VARIABLES
    files,     \* PID directory: port -> text of fileserver.<port>.pid, or NoFile
    procs,     \* process table: pid -> [kind, port, bound, parent]
    extBound,  \* loopback ports bound by unrelated processes
    inv,       \* the running command line invocations: slot -> locals
    hist,      \* the invocations that have returned, in order: their results
    envSteps,  \* events of unrelated processes so far
    call       \* a direct call of a function of the module: arguments and result

vars == <<files, procs, extBound, inv, hist, envSteps, call>>

MaxEnv == 1

FreeProc == [kind |-> "free", port |-> NoPort, bound |-> FALSE, parent |-> 0, rc |-> 0]

\* Ports on which a bind to 127.0.0.1 fails.
BoundPorts(pr, ext) ==
    ext \cup {pr[p].port : p \in {q \in PIDs : pr[q].kind = "viewer" /\ pr[q].bound}}

\* process_manager.py:110-116: the loop over range(start_port, start_port +
\* max_attempts); a bind that raises OSError moves on to the next port.
RECURSIVE ProbeFrom(_, _, _)
ProbeFrom(port, stop, bound) ==
    IF port >= stop THEN NoPort
    ELSE IF port \notin 0 .. MaxTcpPort THEN PortOverflow
    ELSE IF port \notin bound THEN port
    ELSE ProbeFrom(port + 1, stop, bound)

\* The requested port is taken without probing it.
find_available_port_unprobed(start_port, max_attempts, bound) == start_port

\* The highest free port of the range is returned.
find_available_port_highest(start_port, max_attempts, bound) ==
    LET range == {p \in start_port .. (start_port + max_attempts - 1) : p \notin bound}
    IN IF range = {} THEN NoPort
       ELSE CHOOSE p \in range : \A q \in range : p >= q

\* process_manager.py:100-117.  Ports start .. start+max_attempts-1 in ascending
\* order, the first that binds; NoPort stands for None.
find_available_port(start_port, max_attempts, bound) ==
    ProbeFrom(start_port, start_port + max_attempts, bound)

\* os.kill(pid, sig): the process a PID names.  A negative PID names the process
\* group -pid; every process here leads its own group (start_new_session).
Target(pid) == IF pid < 0 THEN -pid ELSE pid

\* Outcome of os.kill(pid, sig) for any sig: "ok", "ESRCH" (errno 3) or "EPERM".
KillOutcome(pr, pid) ==
    IF pid = 0 THEN "ok"
    ELSE IF Target(pid) \notin PIDs THEN "ESRCH"
    ELSE CASE pr[Target(pid)].kind = "free" -> "ESRCH"
           [] pr[Target(pid)].kind = "priv" -> "EPERM"
           [] OTHER -> "ok"

\* Every PID is reported running.
is_process_running_always(pr, pid) == TRUE

\* A process that exists is reported running, signalable or not.
is_process_running_exists(pr, pid) == KillOutcome(pr, pid) # "ESRCH"

\* process_manager.py:120-133
is_process_running(pr, pid) == KillOutcome(pr, pid) = "ok"

\* A process leaves the table; a child whose launcher has not yet waited for it
\* stays as a zombie, which keeps its PID and still accepts signals.
ExitedWith(pr, p, rc) ==
    IF pr[p].kind = "viewer" /\ pr[p].parent # 0
    THEN [pr EXCEPT ![p] = [kind |-> "zombie", port |-> pr[p].port, bound |-> FALSE,
                            parent |-> pr[p].parent, rc |-> rc]]
    ELSE [pr EXCEPT ![p] = FreeProc]

Exited(pr, p) == ExitedWith(pr, p, 1)

\* No signal ends a process.
DeliverNothing(pr, pid, sig) == pr

\* SIGKILL ends a signalable running process at once; SIGTERM only asks.
Deliver(pr, pid, sig) ==
    IF sig = "SIGKILL" /\ KillOutcome(pr, pid) = "ok" /\ Target(pid) \in PIDs
       /\ pr[Target(pid)].kind \in {"viewer", "other"}
    THEN Exited(pr, Target(pid))
    ELSE pr

\* The launcher process ends: init adopts its children and reaps its zombies.
Orphaned(pr, i) ==
    [p \in PIDs |->
        IF pr[p].parent # i THEN pr[p]
        ELSE IF pr[p].kind = "zombie" THEN FreeProc
        ELSE [pr[p] EXCEPT !.parent = 0]]

RECURSIVE SortedSeq(_)
SortedSeq(S) == IF S = {} THEN <<>>
                ELSE LET m == CHOOSE x \in S : \A y \in S : x <= y
                     IN <<m>> \o SortedSeq(S \ {m})

\* pid_dir.glob("fileserver.*.pid")
Glob(f) == SortedSeq({p \in Ports : f[p] # NoFile})

\* No direct call of find_available_port is under way.
NoCall == [start_port |-> NoPort, max_attempts |-> 0, result |-> NoPort, returned |-> FALSE,
           bound0 |-> {}, held |-> {}, result2 |-> NoPort, again |-> FALSE]

IdleInv == [pc |-> "idle", op |-> "none", req |-> NoPort, fg |-> FALSE, nob |-> FALSE,
            kport |-> NoPort, kall |-> FALSE, port |-> NoPort, pid |-> NoPid,
            todo |-> <<>>, stale |-> <<>>, viewers |-> {}, killed |-> 0, failed |-> 0,
            sigs |-> {}, errs |-> {}, spawned |-> {}, unlinked |-> {}, probes |-> {},
            pre |-> <<>>, ext0 |-> {}, bound0 |-> {}, saw |-> "",
            res |-> "", rport |-> NoPort, rpid |-> NoPid, exit |-> 0]

Init ==
    /\ files \in [Ports -> {NoFile} \cup InitTexts]
    /\ procs = [p \in PIDs |-> FreeProc]
    /\ extBound = {}
    /\ inv = [i \in Invs |-> IdleInv]
    /\ hist = <<>>
    /\ envSteps = 0
    /\ call = NoCall

Active == {j \in Invs : inv[j].pc # "idle"}

\* kill exits with status 0 when its count is not negative.
ExitStatusKillNonNegative(op, res, rport, killed) ==
    IF res = "crash" THEN 1
    ELSE CASE op = "launch" -> IF rport = NoPort THEN 1 ELSE 0
           [] op = "status" -> 0
           [] op = "kill" -> IF killed >= 0 THEN 0 ELSE 1

\* Every command exits with status 0.
ExitStatusAlwaysZero(op, res, rport, killed) == 0

\* cli.py:174-198: the exit status of the command; an unhandled exception ends
\* the interpreter with status 1.
ExitStatus(op, res, rport, killed) ==
    IF res = "crash" THEN 1
    ELSE CASE op = "launch" -> IF rport = NoPort THEN 1 ELSE 0
           [] op = "status" -> 0
           [] op = "kill" -> IF killed > 0 THEN 0 ELSE 1

\* Invocation i returns: v holds its final locals, f and pr the directory and
\* the process table it leaves.  The slot shows what the command did (pc "done")
\* until Return files its result in hist.
Finish(i, v, res, rport, rpid, f, pr) ==
    /\ files' = f
    /\ procs' = Orphaned(pr, i)
    /\ inv' = [inv EXCEPT ![i] = [v EXCEPT !.pc = "done", !.res = res, !.rport = rport,
                                           !.rpid = rpid,
                                           !.exit = ExitStatus(v.op, res, rport, v.killed)]]
    /\ UNCHANGED <<extBound, hist, envSteps, call>>

Return(i) ==
    /\ inv[i].pc = "done"
    /\ hist' = Append(hist,
                 [op |-> inv[i].op, req |-> inv[i].req, fg |-> inv[i].fg,
                  kport |-> inv[i].kport, res |-> inv[i].res, rport |-> inv[i].rport,
                  rpid |-> inv[i].rpid, killed |-> inv[i].killed,
                  nrec |-> Cardinality({p \in Ports : files[p] # NoFile})])
    /\ inv' = [inv EXCEPT ![i] = IdleInv]
    /\ UNCHANGED <<files, procs, extBound, envSteps, call>>

\* Nothing else moves while a command that has just returned is on show.
Quiet == \A j \in Invs : inv[j].pc # "done"

\* Invocation i moves on with locals v, leaving directory f and process table pr.
Step(i, v, f, pr) ==
    /\ inv' = [inv EXCEPT ![i] = v]
    /\ files' = f
    /\ procs' = pr
    /\ UNCHANGED <<extBound, hist, envSteps, call>>

\* Invocation i is about to run the step named pc.
At(i, pc) == Quiet /\ inv[i].pc = pc

\* A command may start in slot i while fewer than limit commands have been run.
MayBegin(i, limit) ==
    /\ Quiet
    /\ inv[i].pc = "idle"
    /\ Len(hist) + Cardinality(Active) < limit

\* The field saw of a launch holds what the launcher learnt of its child: "alive"
\* or "exited" at process.poll(), "exit0", "exit1" or "interrupt" in foreground.

\* What a liveness probe of pid met: whether a process with that PID is running
\* (a zombie is not) and what os.kill(pid, 0) did, beside what the probe answered.
ProbeNote(pr, port, pid) ==
    [port |-> port, pid |-> pid,
     running |-> Target(pid) \in PIDs
                 /\ pr[Target(pid)].kind \in {"viewer", "other", "priv"},
     outcome |-> KillOutcome(pr, pid),
     answer |-> is_process_running(pr, pid)]

Unlink(f, port) == [f EXCEPT ![port] = NoFile]

\* ------------------------------------------------------------- launch_server
\* A probe that found no port is not noticed: the requested port is used.
LaunchBeginUnchecked(i, req, fg, nob, limit) ==
    /\ MayBegin(i, limit)
    /\ LET v == [IdleInv EXCEPT !.op = "launch", !.req = req, !.fg = fg, !.nob = nob,
                                !.pre = files, !.ext0 = extBound,
                                !.bound0 = BoundPorts(procs, extBound)]
           ap == find_available_port(req, MaxAttempts, BoundPorts(procs, extBound))
       IN Step(i, [v EXCEPT !.port = IF ap = NoPort THEN req ELSE ap,
                            !.pc = "l_exists"], files, procs)

\* process_manager.py:157-167: the port probe; None ends the launch.
LaunchBegin(i, req, fg, nob, limit) ==
    /\ MayBegin(i, limit)
    /\ LET v == [IdleInv EXCEPT !.op = "launch", !.req = req, !.fg = fg, !.nob = nob,
                                !.pre = files, !.ext0 = extBound,
                                !.bound0 = BoundPorts(procs, extBound)]
           ap == find_available_port(req, MaxAttempts, BoundPorts(procs, extBound))
       IN IF ap = PortOverflow
          THEN Finish(i, v, "crash", NoPort, NoPid, files, procs)
          ELSE IF ap = NoPort
          THEN Finish(i, v, "no_ports", NoPort, NoPid, files, procs)
          ELSE Step(i, [v EXCEPT !.port = ap, !.pc = "l_exists"], files, procs)

\* process_manager.py:174, pid_file.exists()
LaunchExists(i) ==
    /\ At(i, "l_exists")
    /\ Step(i, [inv[i] EXCEPT !.pc = IF files[inv[i].port] # NoFile THEN "l_read"
                                     ELSE "l_spawn"], files, procs)

\* A record of a running process is cleaned up like a stale one.
LaunchReadTakesOver(i) ==
    /\ At(i, "l_read")
    /\ LET v == inv[i]
           r == ParseInt(files[v.port])
       IN IF files[v.port] = NoFile \/ ~r.ok
          THEN Step(i, [v EXCEPT !.pc = "l_unlink187"], files, procs)
          ELSE Step(i, [v EXCEPT !.pc = "l_unlink184",
                                 !.probes = @ \cup {ProbeNote(procs, v.port, r.val)}],
                    files, procs)

\* process_manager.py:175-187: read, parse and probe the record found.
LaunchRead(i) ==
    /\ At(i, "l_read")
    /\ LET v == inv[i]
           r == ParseInt(files[v.port])
       IN IF files[v.port] = NoFile \/ ~r.ok
          THEN Step(i, [v EXCEPT !.pc = "l_unlink187"], files, procs)
          ELSE IF is_process_running(procs, r.val)
          THEN Finish(i, [v EXCEPT !.probes = @ \cup {ProbeNote(procs, v.port, r.val)}],
                      "already_running", NoPort, NoPid, files, procs)
          ELSE Step(i, [v EXCEPT !.pc = "l_unlink184",
                                 !.probes = @ \cup {ProbeNote(procs, v.port, r.val)}],
                    files, procs)

\* process_manager.py:184: a missing file raises an OSError the handler catches.
LaunchUnlinkStale(i) ==
    /\ At(i, "l_unlink184")
    /\ LET v == inv[i]
       IN IF files[v.port] = NoFile
          THEN Step(i, [v EXCEPT !.pc = "l_unlink187"], files, procs)
          ELSE Step(i, [v EXCEPT !.pc = "l_spawn", !.unlinked = @ \cup {v.port}],
                    Unlink(files, v.port), procs)

\* A malformed record ends the launch and stays.
LaunchUnlinkInvalidAborts(i) ==
    /\ At(i, "l_unlink187")
    /\ Finish(i, inv[i], "error", NoPort, NoPid, files, procs)

\* process_manager.py:185-187: unlink in the handler; a missing file is unhandled.
LaunchUnlinkInvalid(i) ==
    /\ At(i, "l_unlink187")
    /\ LET v == inv[i]
       IN IF files[v.port] = NoFile
          THEN Finish(i, v, "crash", NoPort, NoPid, files, procs)
          ELSE Step(i, [v EXCEPT !.pc = "l_spawn", !.unlinked = @ \cup {v.port}],
                    Unlink(files, v.port), procs)

Viewer(port, parent) ==
    [kind |-> "viewer", port |-> port, bound |-> FALSE, parent |-> parent, rc |-> 0]

\* process_manager.py:217-218 and 240-247: the child is started, or Popen raises.
LaunchSpawn(i) ==
    /\ At(i, "l_spawn")
    /\ LET v == inv[i]
       IN \/ \E p \in PIDs :
               /\ procs[p].kind = "free"
               /\ Step(i, [v EXCEPT !.pid = p, !.spawned = @ \cup {p},
                                    !.pc = IF v.fg THEN "l_fgwait" ELSE "l_write"],
                       files, [procs EXCEPT ![p] = Viewer(v.port, i)])
          \/ IF v.fg
             THEN Finish(i, v, "crash", NoPort, NoPid, files, procs)
             ELSE Step(i, [v EXCEPT !.pc = "l_except"], files, procs)

\* The record is written under the port that was asked for, not the one probed.
LaunchWriteRequestedPort(i) ==
    /\ At(i, "l_write")
    /\ LET v == inv[i]
       IN \/ Step(i, [v EXCEPT !.pc = "l_poll"],
                  [files EXCEPT ![v.req] = PidText(v.pid)], procs)
          \/ Step(i, [v EXCEPT !.pc = "l_except"], files, procs)

\* process_manager.py:250: the record is written, or write_text raises: before
\* the file is opened, or after it was created and nothing was written to it.
LaunchWrite(i) ==
    /\ At(i, "l_write")
    /\ LET v == inv[i]
       IN \/ Step(i, [v EXCEPT !.pc = "l_poll"],
                  [files EXCEPT ![v.port] = PidText(v.pid)], procs)
          \/ Step(i, [v EXCEPT !.pc = "l_except"], files, procs)
          \/ Step(i, [v EXCEPT !.pc = "l_except"],
                  [files EXCEPT ![v.port] = <<>>], procs)

\* process_manager.py:254-297: after the grace period, process.poll(); a live
\* child means success: at once with no_browser, else subprocess.run starts
\* the browser opener (which may raise) and waits for it.
LaunchPoll(i) ==
    /\ At(i, "l_poll")
    /\ LET v == inv[i]
       IN IF procs[v.pid].kind = "zombie"
          THEN Step(i, [v EXCEPT !.pc = "l_unlink273", !.saw = "exited"], files,
                    [procs EXCEPT ![v.pid] = FreeProc])
          ELSE IF v.nob
          THEN Finish(i, [v EXCEPT !.saw = "alive"], "ok", v.port, v.pid, files, procs)
          ELSE \/ Step(i, [v EXCEPT !.pc = "l_browser", !.saw = "alive"], files, procs)
               \/ Step(i, [v EXCEPT !.pc = "l_except", !.saw = "alive"], files, procs)

\* process_manager.py:283-297: the opener (open, start, xdg-open) exits, so
\* subprocess.run, which has no timeout, returns and launch reports success.
LaunchBrowserReturn(i) ==
    /\ At(i, "l_browser")
    /\ Finish(i, inv[i], "ok", inv[i].port, inv[i].pid, files, procs)

\* The record of the child that died is left behind.
LaunchUnlinkFailedKeep(i) ==
    /\ At(i, "l_unlink273")
    /\ Finish(i, inv[i], "spawn_failed", NoPort, NoPid, files, procs)

\* process_manager.py:273-274: the record of the child that died is removed.
LaunchUnlinkFailed(i) ==
    /\ At(i, "l_unlink273")
    /\ LET v == inv[i]
       IN IF files[v.port] = NoFile
          THEN Step(i, [v EXCEPT !.pc = "l_except"], files, procs)
          ELSE Finish(i, [v EXCEPT !.unlinked = @ \cup {v.port}], "spawn_failed",
                      NoPort, NoPid, Unlink(files, v.port), procs)

\* The handler reports the error and leaves the record where it is.
LaunchExceptKeeps(i) ==
    /\ At(i, "l_except")
    /\ Finish(i, inv[i], "error", NoPort, NoPid, files, procs)

\* process_manager.py:299-303
LaunchExcept(i) ==
    /\ At(i, "l_except")
    /\ LET v == inv[i]
       IN IF files[v.port] # NoFile
          THEN Finish(i, [v EXCEPT !.unlinked = @ \cup {v.port}], "error",
                      NoPort, NoPid, Unlink(files, v.port), procs)
          ELSE Finish(i, v, "error", NoPort, NoPid, files, procs)

\* Whatever status the child exits with, the port is returned.
LaunchFgWaitAnyStatus(i) ==
    /\ At(i, "l_fgwait")
    /\ LET v == inv[i]
       IN /\ procs[v.pid].kind = "zombie"
          /\ Finish(i, [v EXCEPT !.saw = IF procs[v.pid].rc = 0 THEN "exit0" ELSE "exit1"],
                    "ok", v.port, NoPid, files, procs)

\* process_manager.py:218-225: subprocess.run(check=True) returns when the child
\* has exited; a non-zero status raises CalledProcessError.
LaunchFgWait(i) ==
    /\ At(i, "l_fgwait")
    /\ LET v == inv[i]
       IN /\ procs[v.pid].kind = "zombie"
          /\ IF procs[v.pid].rc = 0
             THEN Finish(i, [v EXCEPT !.saw = "exit0"], "ok", v.port, NoPid, files, procs)
             ELSE Finish(i, [v EXCEPT !.saw = "exit1"], "fg_failed", NoPort, NoPid,
                         files, procs)

\* An interrupt is reported as a failure.
LaunchFgInterruptFails(i) ==
    /\ At(i, "l_fgwait")
    /\ LET v == inv[i]
       IN Finish(i, [v EXCEPT !.saw = "interrupt"], "fg_failed", NoPort, NoPid, files,
                 [procs EXCEPT ![v.pid] = FreeProc])

\* process_manager.py:220-222: KeyboardInterrupt; subprocess.run kills the child.
LaunchFgInterrupt(i) ==
    /\ At(i, "l_fgwait")
    /\ LET v == inv[i]
       IN Finish(i, [v EXCEPT !.saw = "interrupt"], "interrupted", v.port, NoPid, files,
                 [procs EXCEPT ![v.pid] = FreeProc])

\* ------------------------------------------------------------- status_server
\* process_manager.py:322-326: the glob; no files, no viewers.
StatusBegin(i, limit) ==
    /\ MayBegin(i, limit)
    /\ LET v == [IdleInv EXCEPT !.op = "status", !.pre = files, !.todo = Glob(files)]
       IN IF v.todo = <<>>
          THEN Finish(i, v, "ok", NoPort, NoPid, files, procs)
          ELSE Step(i, [v EXCEPT !.pc = "s_read"], files, procs)

\* The liveness test is inverted: live records are filed as stale.
StatusClassifyInverted(v, pr, port, text) ==
    LET r == ParseInt(text)
    IN IF ~r.ok
       THEN [v EXCEPT !.stale = Append(@, port), !.todo = Tail(@)]
       ELSE IF ~is_process_running(pr, r.val)
       THEN [v EXCEPT !.viewers = @ \cup {<<r.val, PortText(port)>>}, !.todo = Tail(@),
                      !.probes = @ \cup {ProbeNote(pr, port, r.val)}]
       ELSE [v EXCEPT !.stale = Append(@, port), !.todo = Tail(@),
                      !.probes = @ \cup {ProbeNote(pr, port, r.val)}]

\* process_manager.py:332-345: one turn of the loop over pid_files; only
\* ValueError is caught.  The port of a live entry is the text in the file name.
StatusClassify(v, pr, port, text) ==
    LET r == ParseInt(text)
    IN IF ~r.ok
       THEN [v EXCEPT !.stale = Append(@, port), !.todo = Tail(@)]
       ELSE IF is_process_running(pr, r.val)
       THEN [v EXCEPT !.viewers = @ \cup {<<r.val, PortText(port)>>}, !.todo = Tail(@),
                      !.probes = @ \cup {ProbeNote(pr, port, r.val)}]
       ELSE [v EXCEPT !.stale = Append(@, port), !.todo = Tail(@),
                      !.probes = @ \cup {ProbeNote(pr, port, r.val)}]

\* The loop is left after its first turn.
StatusReadFirstOnly(i) ==
    /\ At(i, "s_read")
    /\ LET v == inv[i]
           port == Head(v.todo)
           w == StatusClassify(v, procs, port, files[port])
       IN IF files[port] = NoFile
          THEN Finish(i, v, "crash", NoPort, NoPid, files, procs)
          ELSE IF w.stale # <<>>
          THEN Step(i, [w EXCEPT !.pc = "s_clean", !.todo = <<>>], files, procs)
          ELSE Finish(i, [w EXCEPT !.todo = <<>>], "ok", NoPort, NoPid, files, procs)

\* process_manager.py:332-345: the loop over pid_files; read_text on a file that
\* is gone raises FileNotFoundError, which nothing catches.
StatusRead(i) ==
    /\ At(i, "s_read")
    /\ LET v == inv[i]
           port == Head(v.todo)
           w == StatusClassify(v, procs, port, files[port])
       IN IF files[port] = NoFile
          THEN Finish(i, v, "crash", NoPort, NoPid, files, procs)
          ELSE IF w.todo # <<>>
          THEN Step(i, w, files, procs)
          ELSE IF w.stale # <<>>
          THEN Step(i, [w EXCEPT !.pc = "s_clean"], files, procs)
          ELSE Finish(i, w, "ok", NoPort, NoPid, files, procs)

\* The stale files are counted but left in place.
StatusCleanKeep(i) ==
    /\ At(i, "s_clean")
    /\ Finish(i, [inv[i] EXCEPT !.stale = <<>>], "ok", NoPort, NoPid, files, procs)

\* process_manager.py:347-363: unlink every stale file, then report.
StatusClean(i) ==
    /\ At(i, "s_clean")
    /\ LET v == inv[i]
           port == Head(v.stale)
           w == [v EXCEPT !.stale = Tail(@), !.unlinked = @ \cup {port}]
       IN IF files[port] = NoFile
          THEN Finish(i, v, "crash", NoPort, NoPid, files, procs)
          ELSE IF w.stale # <<>>
          THEN Step(i, w, Unlink(files, port), procs)
          ELSE Finish(i, w, "ok", NoPort, NoPid, Unlink(files, port), procs)

\* --------------------------------------------------------------- kill_server
\* The port is ignored: every file of the directory is a target.
KillTargetsAll(f, port, kill_all) == Glob(f)

\* Without --all and without a port nothing is targeted.
KillTargetsNeedsAll(f, port, kill_all) ==
    IF port # NoPort /\ port # 0 THEN <<port>>
    ELSE IF kill_all THEN Glob(f)
    ELSE <<>>

\* process_manager.py:383-392: `if port:` picks the single file; None and 0 are
\* both false and take every file of the directory, whatever kill_all is.
KillTargets(f, port, kill_all) ==
    IF port # NoPort /\ port # 0 THEN <<port>>
    ELSE IF kill_all THEN Glob(f)
    ELSE Glob(f)

KillPorts == {NoPort, 0} \cup Ports

\* process_manager.py:394-399
KillBegin(i, port, kill_all, limit) ==
    /\ MayBegin(i, limit)
    /\ LET v == [IdleInv EXCEPT !.op = "kill", !.kport = port, !.kall = kill_all,
                                !.pre = files, !.todo = KillTargets(files, port, kill_all)]
       IN IF v.todo = <<>>
          THEN Finish(i, v, "ok", NoPort, NoPid, files, procs)
          ELSE Step(i, [v EXCEPT !.pc = "k_exists"], files, procs)

\* The loop moves to the next pid_file, or ends and kill returns killed_count
\* (process_manager.py:450-454).
KillAdvance(i, v, f, pr) ==
    IF Tail(v.todo) = <<>>
    THEN Finish(i, [v EXCEPT !.todo = <<>>], "ok", NoPort, NoPid, f, pr)
    ELSE Step(i, [v EXCEPT !.todo = Tail(@), !.pc = "k_exists", !.pid = NoPid], f, pr)

\* process_manager.py:406-410
KillExists(i) ==
    /\ At(i, "k_exists")
    /\ LET v == inv[i]
           port == Head(v.todo)
       IN IF files[port] # NoFile
          THEN Step(i, [v EXCEPT !.pc = "k_term"], files, procs)
          ELSE IF v.kport # NoPort /\ v.kport # 0
          THEN Finish(i, [v EXCEPT !.killed = 0], "ok", NoPort, NoPid, files, procs)
          ELSE KillAdvance(i, v, files, procs)

\* As KillTerm, with "no such process" counted as killed.
KillTermCountsNotFound(i) ==
    /\ At(i, "k_term")
    /\ LET v == inv[i]
           port == Head(v.todo)
           r == ParseInt(files[port])
           out == KillOutcome(procs, r.val)
       IN IF files[port] = NoFile
          THEN KillAdvance(i, [v EXCEPT !.failed = @ + 1], files, procs)
          ELSE IF ~r.ok
          THEN Step(i, [v EXCEPT !.pc = "k_unlink444"], files, procs)
          ELSE IF out = "ok"
          THEN Step(i, [v EXCEPT !.pc = "k_probe", !.pid = r.val,
                                 !.sigs = @ \cup {<<port, r.val, "SIGTERM">>}],
                    files, Deliver(procs, r.val, "SIGTERM"))
          ELSE IF out = "ESRCH"
          THEN Step(i, [v EXCEPT !.pc = "k_unlink", !.pid = r.val, !.killed = @ + 1,
                                 !.errs = @ \cup {<<port, r.val, "SIGTERM", out>>}],
                    files, procs)
          ELSE Step(i, [v EXCEPT !.pc = "k_unlink", !.pid = r.val, !.failed = @ + 1,
                                 !.errs = @ \cup {<<port, r.val, "SIGTERM", out>>}],
                    files, procs)

\* process_manager.py:412-418 and 432-448: read the PID and send SIGTERM.
KillTerm(i) ==
    /\ At(i, "k_term")
    /\ LET v == inv[i]
           port == Head(v.todo)
           r == ParseInt(files[port])
           out == KillOutcome(procs, r.val)
       IN IF files[port] = NoFile
          THEN KillAdvance(i, [v EXCEPT !.failed = @ + 1], files, procs)
          ELSE IF ~r.ok
          THEN Step(i, [v EXCEPT !.pc = "k_unlink444"], files, procs)
          ELSE IF out = "ok"
          THEN Step(i, [v EXCEPT !.pc = "k_probe", !.pid = r.val,
                                 !.sigs = @ \cup {<<port, r.val, "SIGTERM">>}],
                    files, Deliver(procs, r.val, "SIGTERM"))
          ELSE IF out = "ESRCH"
          THEN Step(i, [v EXCEPT !.pc = "k_unlink", !.pid = r.val,
                                 !.errs = @ \cup {<<port, r.val, "SIGTERM", out>>}],
                    files, procs)
          ELSE Step(i, [v EXCEPT !.pc = "k_unlink", !.pid = r.val, !.failed = @ + 1,
                                 !.errs = @ \cup {<<port, r.val, "SIGTERM", out>>}],
                    files, procs)

\* SIGKILL follows SIGTERM without a look at the process.
KillProbeSkipped(i) ==
    /\ At(i, "k_probe")
    /\ Step(i, [inv[i] EXCEPT !.pc = "k_kill9"], files, procs)

\* process_manager.py:421-430: after one second, the liveness probe.
KillProbe(i) ==
    /\ At(i, "k_probe")
    /\ LET v == inv[i]
           w == [v EXCEPT !.probes = @ \cup {ProbeNote(procs, Head(v.todo), v.pid)}]
       IN IF is_process_running(procs, v.pid)
          THEN Step(i, [w EXCEPT !.pc = "k_kill9"], files, procs)
          ELSE Step(i, [w EXCEPT !.pc = "k_unlink", !.killed = @ + 1], files, procs)

\* process_manager.py:427-437: SIGKILL; an OSError skips killed_count += 1.
KillForce(i) ==
    /\ At(i, "k_kill9")
    /\ LET v == inv[i]
           port == Head(v.todo)
           out == KillOutcome(procs, v.pid)
       IN IF out = "ok"
          THEN Step(i, [v EXCEPT !.pc = "k_unlink", !.killed = @ + 1,
                                 !.sigs = @ \cup {<<port, v.pid, "SIGKILL">>}],
                    files, Deliver(procs, v.pid, "SIGKILL"))
          ELSE IF out = "ESRCH"
          THEN Step(i, [v EXCEPT !.pc = "k_unlink",
                                 !.errs = @ \cup {<<port, v.pid, "SIGKILL", out>>}],
                    files, procs)
          ELSE Step(i, [v EXCEPT !.pc = "k_unlink", !.failed = @ + 1,
                                 !.errs = @ \cup {<<port, v.pid, "SIGKILL", out>>}],
                    files, procs)

\* The record is left in place after the signals.
KillUnlinkKeep(i) ==
    /\ At(i, "k_unlink")
    /\ KillAdvance(i, inv[i], files, procs)

\* process_manager.py:439-440 and 446-448: a missing file lands in
\* `except Exception`.
KillUnlink(i) ==
    /\ At(i, "k_unlink")
    /\ LET v == inv[i]
           port == Head(v.todo)
       IN IF files[port] = NoFile
          THEN KillAdvance(i, [v EXCEPT !.failed = @ + 1], files, procs)
          ELSE KillAdvance(i, [v EXCEPT !.unlinked = @ \cup {port}],
                           Unlink(files, port), procs)

\* A malformed record ends the batch.
KillUnlinkInvalidAborts(i) ==
    /\ At(i, "k_unlink444")
    /\ LET v == inv[i]
           port == Head(v.todo)
       IN IF files[port] = NoFile
          THEN Finish(i, v, "crash", NoPort, NoPid, files, procs)
          ELSE Finish(i, [v EXCEPT !.unlinked = @ \cup {port}, !.failed = @ + 1],
                      "ok", NoPort, NoPid, Unlink(files, port), procs)

\* process_manager.py:442-445: unlink inside the ValueError handler; a missing
\* file there is unhandled.
KillUnlinkInvalid(i) ==
    /\ At(i, "k_unlink444")
    /\ LET v == inv[i]
           port == Head(v.todo)
       IN IF files[port] = NoFile
          THEN Finish(i, v, "crash", NoPort, NoPid, files, procs)
          ELSE KillAdvance(i, [v EXCEPT !.unlinked = @ \cup {port}, !.failed = @ + 1],
                           Unlink(files, port), procs)

\* ---------------------------------------------------------------- processes
\* server.py:1064: the child binds its port once it has started.
ChildBind(p) ==
    /\ Quiet
    /\ procs[p].kind = "viewer" /\ ~procs[p].bound
    /\ procs[p].port \notin BoundPorts(procs, extBound)
    /\ procs' = [procs EXCEPT ![p].bound = TRUE]
    /\ UNCHANGED <<files, extBound, inv, hist, envSteps, call>>

\* server.py:1064: the port is taken, uvicorn exits with status 1.
ChildBindFail(p) ==
    /\ Quiet
    /\ procs[p].kind = "viewer" /\ ~procs[p].bound
    /\ procs[p].port \in BoundPorts(procs, extBound)
    /\ procs' = ExitedWith(procs, p, 1)
    /\ UNCHANGED <<files, extBound, inv, hist, envSteps, call>>

\* A process ends on its own or on a signal it was sent earlier.  Its exit
\* status is seen only by a foreground launcher waiting for it.
ProcExit(p, rc) ==
    /\ Quiet
    /\ procs[p].kind \in {"viewer", "other", "priv"}
    /\ rc = 0 => (procs[p].kind = "viewer" /\ procs[p].parent # 0
                   /\ inv[procs[p].parent].fg)
    /\ procs' = ExitedWith(procs, p, rc)
    /\ UNCHANGED <<files, extBound, inv, hist, envSteps, call>>

\* An unrelated process takes a free PID; "priv" belongs to another user.
ForeignSpawn(p, kind) ==
    /\ Quiet
    /\ envSteps < MaxEnv
    /\ procs[p].kind = "free"
    /\ procs' = [procs EXCEPT ![p] = [FreeProc EXCEPT !.kind = kind]]
    /\ envSteps' = envSteps + 1
    /\ UNCHANGED <<files, extBound, inv, hist, call>>

\* An unrelated process binds a loopback port.
ExtBind(port) ==
    /\ Quiet
    /\ envSteps < MaxEnv
    /\ port \notin BoundPorts(procs, extBound)
    /\ extBound' = extBound \cup {port}
    /\ envSteps' = envSteps + 1
    /\ UNCHANGED <<files, procs, inv, hist, call>>

\* ------------------------------------------------------------ specifications
Begin(i, limit) ==
    \/ \E req \in ReqPorts, fg \in BOOLEAN, nob \in BOOLEAN :
          LaunchBegin(i, req, fg, nob, limit)
    \/ StatusBegin(i, limit)
    \/ \E port \in KillPorts, kill_all \in BOOLEAN : KillBegin(i, port, kill_all, limit)

Continue(i) ==
    \/ LaunchExists(i) \/ LaunchRead(i) \/ LaunchUnlinkStale(i)
    \/ LaunchUnlinkInvalid(i) \/ LaunchSpawn(i) \/ LaunchWrite(i)
    \/ LaunchPoll(i) \/ LaunchUnlinkFailed(i) \/ LaunchExcept(i)
    \/ LaunchFgWait(i) \/ LaunchFgInterrupt(i)
    \/ StatusRead(i) \/ StatusClean(i)
    \/ KillExists(i) \/ KillTerm(i) \/ KillProbe(i) \/ KillForce(i)
    \/ KillUnlink(i) \/ KillUnlinkInvalid(i)

\* What the viewers do on their own.
ChildEnv ==
    \/ \E p \in PIDs : ChildBind(p) \/ ChildBindFail(p)
    \/ \E p \in PIDs, rc \in {0, 1} : ProcExit(p, rc)

\* What unrelated processes do.
ForeignEnv ==
    \/ \E p \in PIDs, kind \in {"other", "priv"} : ForeignSpawn(p, kind)
    \/ \E port \in Ports : ExtBind(port)

\* What the browser openers started by launches do: they exit.
OpenerEnv == \E i \in Invs : LaunchBrowserReturn(i)

\* One command at a time: the next starts when the previous has returned.
Next ==
    \/ Begin(1, MaxOps)
    \/ Continue(1)
    \/ ChildEnv
    \/ ForeignEnv
    \/ OpenerEnv
    \/ Return(1)

Spec == Init /\ [][Next]_vars

\* Commands run concurrently, one per slot, beside the viewers they started.
MaxConcOps == 2

ConcNext ==
    \/ \E i \in Invs : Begin(i, MaxConcOps) \/ Continue(i)
    \/ ChildEnv
    \/ OpenerEnv
    \/ \E i \in Invs : Return(i)

ConcSpec == Init /\ [][ConcNext]_vars

\* find_available_port called on its own, as a test harness does: some loopback
\* ports are occupied beforehand, the arguments are any start port and count.
MaxProbe == 3
StartPorts == BasePort .. (BasePort + 1)
ProbePorts == BasePort .. (BasePort + MaxProbe + 1)

PortInit ==
    /\ files = [p \in Ports |-> NoFile]
    /\ procs = [p \in PIDs |-> FreeProc]
    /\ extBound \in SUBSET ProbePorts
    /\ inv = [i \in Invs |-> IdleInv]
    /\ hist = <<>>
    /\ envSteps = 0
    /\ call \in [start_port : StartPorts, max_attempts : 0 .. MaxProbe,
                 result : {NoPort}, returned : {FALSE},
                 bound0 : {{}}, held : {{}}, result2 : {NoPort}, again : {FALSE}]

\* The socket of the call that returned result stays bound after the return.
SocketsHeldAfterLeaked(result) ==
    IF result \in 0 .. MaxTcpPort THEN {result} ELSE {}

\* process_manager.py:112-114: the ports still bound by the sockets of a call
\* once it has returned result; `return port` leaves the `with` block, which
\* closes the socket, and a bind that raised bound nothing.
SocketsHeldAfter(result) == {}

\* process_manager.py:100-117: the call returns.
FindAvailablePortCall ==
    /\ ~call.returned
    /\ LET bound == BoundPorts(procs, extBound) \cup call.held
           r == find_available_port(call.start_port, call.max_attempts, bound)
       IN call' = [call EXCEPT !.returned = TRUE, !.result = r, !.bound0 = bound,
                               !.held = call.held \cup SocketsHeldAfter(r)]
    /\ UNCHANGED <<files, procs, extBound, inv, hist, envSteps>>

\* process_manager.py:100-117: a second call with the same arguments, nothing
\* else having bound or released a port in between.
FindAvailablePortAgain ==
    /\ call.returned /\ ~call.again
    /\ LET bound == BoundPorts(procs, extBound) \cup call.held
           r == find_available_port(call.start_port, call.max_attempts, bound)
       IN call' = [call EXCEPT !.again = TRUE, !.result2 = r,
                               !.held = call.held \cup SocketsHeldAfter(r)]
    /\ UNCHANGED <<files, procs, extBound, inv, hist, envSteps>>

PortNext == FindAvailablePortCall \/ FindAvailablePortAgain

PortSpec == PortInit /\ [][PortNext]_vars

\* find_available_port called with a range that reaches the top of the TCP
\* port numbers.
HighStartPorts == (MaxTcpPort - 2) .. MaxTcpPort

HighPortInit ==
    /\ files = [p \in Ports |-> NoFile]
    /\ procs = [p \in PIDs |-> FreeProc]
    /\ extBound \in SUBSET HighStartPorts
    /\ inv = [i \in Invs |-> IdleInv]
    /\ hist = <<>>
    /\ envSteps = 0
    /\ call \in [start_port : HighStartPorts, max_attempts : 0 .. MaxProbe,
                 result : {NoPort}, returned : {FALSE},
                 bound0 : {{}}, held : {{}}, result2 : {NoPort}, again : {FALSE}]

HighPortSpec == HighPortInit /\ [][PortNext]_vars

\* ------------------------------------------------------------ get_pid_directory
\* platform.system() as the function tells platforms apart.
Systems == {"Darwin", "Linux", "Windows", "Other"}

\* What the function reads of its environment: the variables that are set on
\* Windows, whether /tmp exists elsewhere.
EnvOf(system) ==
    CASE system = "Windows" -> SUBSET {"APPDATA", "LOCALAPPDATA", "TEMP"}
      [] system = "Other" -> SUBSET {"/tmp"}
      [] OTHER -> {{}}

\* The directory given as fallback_dir.
Fallback == "fallback_dir"

\* process_manager.py:40-75: the candidates in priority order, fallback last.
Candidates(system, env) ==
    LET std ==
          CASE system = "Darwin" ->
                 <<"~/Library/Application Support/Aigon/pids", "~/.cache/aigon/pids",
                   "/tmp/aigon-fileserver">>
            [] system = "Linux" ->
                 <<"~/.cache/aigon/pids", "~/.local/share/aigon/pids",
                   "/tmp/aigon-fileserver">>
            [] system = "Windows" ->
                 (IF "APPDATA" \in env THEN <<"%APPDATA%/Aigon/pids">> ELSE <<>>)
                 \o (IF "LOCALAPPDATA" \in env THEN <<"%LOCALAPPDATA%/Aigon/pids">>
                     ELSE <<>>)
                 \o (IF "TEMP" \in env THEN <<"%TEMP%/aigon-fileserver">> ELSE <<>>)
            [] OTHER ->
                 <<"~/.cache/aigon/pids">>
                 \o (IF "/tmp" \in env THEN <<"/tmp/aigon-fileserver">> ELSE <<>>)
    IN Append(std, Fallback)

\* What trying a directory does: "ok", or the step that raises OSError.
DirOutcomes == {"ok", "mkdir", "touch", "unlink"}

\* process_manager.py:77-97: the loop over the candidates; mkdir, touch and
\* unlink must all succeed, an OSError moves on; fallback_dir after the loop.
RECURSIVE FirstUsable(_, _)
FirstUsable(cands, fs) ==
    IF cands = <<>> THEN Fallback
    ELSE IF fs[Head(cands)] = "ok" THEN Head(cands)
    ELSE FirstUsable(Tail(cands), fs)

\* A directory counts once it could be created; the probe file is not tried.
get_pid_directory_mkdir_only(system, env, fs) ==
    LET cands == Candidates(system, env)
        ks == {k \in 1..Len(cands) : fs[cands[k]] # "mkdir"}
    IN IF ks = {} THEN Fallback
       ELSE cands[CHOOSE k \in ks : \A j \in ks : k <= j]

\* process_manager.py:18-97
get_pid_directory(system, env, fs) == FirstUsable(Candidates(system, env), fs)

Range(q) == {q[k] : k \in 1..Len(q)}

\* A call on any platform, with any environment, each candidate directory
\* usable or failing at one of the three steps.
DirCalls ==
    UNION {UNION {{[system |-> sy, env |-> e, fs |-> f, result |-> "",
                    returned |-> FALSE] :
                      f \in [Range(Candidates(sy, e)) -> DirOutcomes]} :
                  e \in EnvOf(sy)} :
           sy \in Systems}

DirInit ==
    /\ files = [p \in Ports |-> NoFile]
    /\ procs = [p \in PIDs |-> FreeProc]
    /\ extBound = {}
    /\ inv = [i \in Invs |-> IdleInv]
    /\ hist = <<>>
    /\ envSteps = 0
    /\ call \in DirCalls

GetPidDirectoryCall ==
    /\ ~call.returned
    /\ call' = [call EXCEPT !.returned = TRUE,
                            !.result = get_pid_directory(call.system, call.env, call.fs)]
    /\ UNCHANGED <<files, procs, extBound, inv, hist, envSteps>>

DirNext == GetPidDirectoryCall

DirSpec == DirInit /\ [][DirNext]_vars

\* ------------------------------------------------- records with a signed number
\* Texts a record may hold that are no PID: a negative number, nothing.
SignedTexts == {PidText(-2), <<>>}

SignedInit ==
    /\ files \in [Ports -> {NoFile} \cup SignedTexts]
    /\ procs = [p \in PIDs |-> FreeProc]
    /\ extBound = {}
    /\ inv = [i \in Invs |-> IdleInv]
    /\ hist = <<>>
    /\ envSteps = 0
    /\ call = NoCall

SignedSpec == SignedInit /\ [][Next]_vars

\* ------------------------------------------------------------------- claims
\* Slot i shows a command op that has just returned.
Done(i, op) == inv[i].pc = "done" /\ inv[i].op = op

\* The command that returned before the one on show, and the one before it.
Prev == hist[Len(hist)]
Prev2 == hist[Len(hist) - 1]

\* h is a background launch that succeeded.
LaunchedOk(h) == h.op = "launch" /\ ~h.fg /\ h.res = "ok"

RecordCount(f) == Cardinality({p \in Ports : f[p] # NoFile})

\* A kill asked for port kport (NoPort: none given) has the record of port in
\* its target set.
KillCovers(kport, port) == kport = NoPort \/ kport = port

\* Ports whose record's process took signal sig from the command with locals v.
Delivered(v, sig) == {t[1] : t \in {u \in v.sigs : u[3] = sig}}

\* Ports for which os.kill(pid, sig) of the command with locals v raised errno.
Refused(v, sig, errno) == {t[1] : t \in {u \in v.errs : u[3] = sig /\ u[4] = errno}}

\* C1: after a successful background launch with requested port P, and while
\* that child is running, a second background launch with the same P (no other
\* process holding a port, nothing raising) reports "already running", exits
\* with status 1, spawns nothing, and one record file exists.
C1_SecondLaunchAlreadyRunning ==
    (/\ Done(1, "launch") /\ Len(hist) >= 1
     /\ LaunchedOk(Prev) /\ Prev.nrec = 1 /\ inv[1].req = Prev.req
     /\ ~inv[1].fg /\ inv[1].res \notin {"crash", "error"}
     /\ inv[1].ext0 = {}
     /\ procs[Prev.rpid].kind = "viewer" /\ Prev.rpid \notin inv[1].spawned)
    => (/\ inv[1].res = "already_running"
        /\ inv[1].exit = 1
        /\ inv[1].spawned = {}
        /\ RecordCount(files) = 1)

\* C2: a successful background launch that leaves its record as the only one,
\* followed by status while the child runs: status returns exactly one entry,
\* the PID and the port that launch returned.
C2_LaunchThenStatus ==
    (/\ Done(1, "status") /\ Len(hist) >= 1
     /\ LaunchedOk(Prev) /\ Prev.nrec = 1
     /\ procs[Prev.rpid].kind = "viewer")
    => (/\ inv[1].res = "ok"
        /\ inv[1].exit = 0
        /\ inv[1].viewers = {<<Prev.rpid, PortText(Prev.rport)>>})

C2_Witness ==
    /\ Done(1, "status") /\ Len(hist) = 1
    /\ LaunchedOk(Prev) /\ Prev.nrec = 1
    /\ procs[Prev.rpid].kind = "viewer" /\ procs[Prev.rpid].bound
    /\ inv[1].viewers = {<<Prev.rpid, PortText(Prev.rport)>>}

\* C3: after a successful background launch, a kill whose targets include the
\* launched record leaves no record for that port and the launched process is
\* gone; a status after that kill does not list the instance, and lists nothing
\* when the kill was given no port.
C3_LaunchKillStatus ==
    /\ (/\ Done(1, "kill") /\ Len(hist) >= 1
        /\ LaunchedOk(Prev) /\ KillCovers(inv[1].kport, Prev.rport))
       => (/\ inv[1].res = "ok"
           /\ files[Prev.rport] = NoFile
           /\ procs[Prev.rpid].kind # "viewer")
    /\ (/\ Done(1, "status") /\ Len(hist) >= 2
        /\ LaunchedOk(Prev2) /\ Prev.op = "kill" /\ KillCovers(Prev.kport, Prev2.rport))
       => (/\ inv[1].res = "ok"
           /\ files[Prev2.rport] = NoFile
           /\ \A e \in inv[1].viewers : e[2] # PortText(Prev2.rport)
           /\ Prev.kport = NoPort => inv[1].viewers = {})

C3_Witness ==
    /\ Done(1, "status") /\ Len(hist) = 2
    /\ LaunchedOk(Prev2) /\ Prev.op = "kill" /\ Prev.kport = NoPort /\ Prev.killed = 1
    /\ inv[1].viewers = {} /\ files[Prev2.rport] = NoFile
    /\ procs[Prev2.rpid].kind = "free"

\* C4: a record whose PID names no running process when status probes it is
\* not in the result of status and its file is gone when status returns.
C4_StatusDropsStale ==
    Done(1, "status")
    => (/\ inv[1].res = "ok"
        /\ \A n \in inv[1].probes :
              ~n.running => (/\ files[n.port] = NoFile
                            /\ \A e \in inv[1].viewers : e[2] # PortText(n.port)))

C4_Witness ==
    /\ Done(1, "status") /\ Len(hist) >= 1 /\ LaunchedOk(Prev)
    /\ \E n \in inv[1].probes :
          /\ n.port = Prev.rport /\ n.pid = Prev.rpid /\ ~n.running
          /\ inv[1].pre[n.port] = PidText(n.pid)
          /\ files[n.port] = NoFile

\* C5: requested port 4444 held by an unrelated process, 4445 free and without
\* a record: a background launch picks 4445, starts the child on 4445, writes
\* fileserver.4445.pid, leaves fileserver.4444.pid alone and returns port 4445.
C5_NextPortWhenBusy ==
    (/\ Done(1, "launch") /\ ~inv[1].fg /\ inv[1].req = BasePort
     /\ BasePort \in inv[1].ext0
     /\ (BasePort + 1) \notin inv[1].bound0
     /\ inv[1].pre[BasePort + 1] = NoFile)
    => (/\ inv[1].port = BasePort + 1
        /\ files[BasePort] = inv[1].pre[BasePort]
        /\ \A p \in inv[1].spawned :
              procs[p].kind = "viewer" => procs[p].port = BasePort + 1
        /\ inv[1].res = "ok"
              => (/\ inv[1].rport = BasePort + 1
                  /\ files[BasePort + 1] = PidText(inv[1].rpid)
                  /\ inv[1].rpid \in inv[1].spawned))

C5_Witness ==
    /\ Done(1, "launch") /\ ~inv[1].fg /\ inv[1].req = BasePort
    /\ BasePort \in inv[1].ext0
    /\ inv[1].pre[BasePort] = NoFile /\ inv[1].pre[BasePort + 1] = NoFile
    /\ inv[1].res = "ok" /\ inv[1].rport = BasePort + 1
    /\ files[BasePort + 1] = PidText(inv[1].rpid) /\ files[BasePort] = NoFile

\* What a kill that found nothing to do leaves behind.
KilledNothing(v) ==
    /\ v.res = "ok" /\ v.killed = 0 /\ v.exit = 1
    /\ v.sigs = {} /\ v.errs = {} /\ v.probes = {}
    /\ v.unlinked = {} /\ files = v.pre

\* C6: kill with a port that has no record returns 0 at once, signals nothing,
\* deletes nothing, exit status 1; kill with no port on a directory without
\* records returns 0 too, with the same exit status 1.
C6_KillNothing ==
    Done(1, "kill")
    => (/\ (inv[1].kport \in Ports /\ inv[1].pre[inv[1].kport] = NoFile)
             => KilledNothing(inv[1])
        /\ (inv[1].kport = NoPort /\ RecordCount(inv[1].pre) = 0)
             => KilledNothing(inv[1]))

C6_Witness ==
    /\ Done(1, "kill") /\ inv[1].kport = BasePort
    /\ inv[1].pre[BasePort] = NoFile /\ inv[1].pre[BasePort + 1] # NoFile
    /\ KilledNothing(inv[1])

\* C7 as claimed: the count kill returns is the number of targeted records whose
\* process took the signals or was not found when SIGTERM was sent.
C7_CountsNotFound ==
    Done(1, "kill")
    => inv[1].killed
         = Cardinality((Delivered(inv[1], "SIGTERM")
                          \ (Refused(inv[1], "SIGKILL", "ESRCH")
                                \cup Refused(inv[1], "SIGKILL", "EPERM")))
                       \cup Refused(inv[1], "SIGTERM", "ESRCH"))

\* C7 as amended: the count kill returns is the number of targeted records whose
\* process took SIGTERM and, when one was sent, SIGKILL; a process not found when
\* SIGTERM was sent adds nothing to the count.
C7_CountsDelivered ==
    Done(1, "kill")
    => (/\ inv[1].res = "ok"
        /\ inv[1].killed
             = Cardinality(Delivered(inv[1], "SIGTERM")
                             \ (Refused(inv[1], "SIGKILL", "ESRCH")
                                   \cup Refused(inv[1], "SIGKILL", "EPERM"))))

C7_Witness ==
    /\ Done(1, "kill") /\ inv[1].kport = NoPort
    /\ Refused(inv[1], "SIGTERM", "ESRCH") # {}
    /\ Delivered(inv[1], "SIGTERM") # {}
    /\ inv[1].killed = 1

\* C8: every record kill targets (the record of the port given when it exists,
\* every record when no port is given) is gone when kill returns, whatever the
\* signalling did.
C8_TargetsDeleted ==
    Done(1, "kill")
    => (/\ inv[1].res = "ok"
        /\ \A p \in Ports :
              (inv[1].pre[p] # NoFile /\ KillCovers(inv[1].kport, p))
              => files[p] = NoFile)

C8_Witness ==
    /\ Done(1, "kill") /\ inv[1].kport = NoPort
    /\ Refused(inv[1], "SIGTERM", "EPERM") # {}
    /\ \E p \in Ports : inv[1].pre[p] # NoFile /\ ~ParseInt(inv[1].pre[p]).ok
    /\ RecordCount(files) = 0

\* C9: kill given a port (any integer, 0 included) signals no process named by
\* another port's record and deletes no other record.
C9_OnlyThatPort ==
    (Done(1, "kill") /\ inv[1].kport # NoPort)
    => (/\ \A t \in inv[1].sigs : t[1] = inv[1].kport
        /\ \A t \in inv[1].errs : t[1] = inv[1].kport
        /\ inv[1].unlinked \subseteq {inv[1].kport})

\* C10: once two background launches with the same requested port have both
\* returned (neither through its exception handler), every child still running
\* and serving its port has a record file holding its PID.
C10_RunningChildRecorded ==
    (/\ Len(hist) = 2
     /\ \A k \in 1..2 :
           /\ hist[k].op = "launch" /\ ~hist[k].fg /\ hist[k].req = BasePort
           /\ hist[k].res \in {"ok", "spawn_failed", "already_running"})
    => \A p \in PIDs :
          (procs[p].kind = "viewer" /\ procs[p].bound)
          => files[procs[p].port] = PidText(p)

\* Background launch i has started its child and has not yet written its record.
Spawned(i) == inv[i].op = "launch" /\ ~inv[i].fg /\ inv[i].pc = "l_write"

\* C11: two concurrent launches with the same requested port that have both
\* passed the record check and started their children before either wrote its
\* record gave their children different ports.
C11_RacingChildrenDifferentPorts ==
    (/\ Spawned(1) /\ Spawned(2)
     /\ inv[1].req = inv[2].req)
    => procs[inv[1].pid].port # procs[inv[2].pid].port

\* C12: status always completes with exit status 0, also when a concurrent
\* command deletes a record between the glob of status and its read or unlink.
C12_StatusAlwaysExitsZero ==
    \A i \in Invs :
        Done(i, "status") => (inv[i].res = "ok" /\ inv[i].exit = 0)

\* C13: a background launch whose child had not exited at process.poll()
\* returns (port, pid) of the child and leaves the record of that port holding
\* that PID, whether the browser step succeeds, fails or is skipped.
C13_AliveChildMeansSuccess ==
    (Done(1, "launch") /\ ~inv[1].fg /\ inv[1].saw = "alive")
    => (/\ inv[1].res = "ok"
        /\ inv[1].rport = inv[1].port /\ inv[1].rpid = inv[1].pid
        /\ files[inv[1].port] = PidText(inv[1].pid))

\* C14: a background launch whose child had already exited at process.poll()
\* returns failure, and the record it wrote is gone when it returns.
C14_DeadChildRolledBack ==
    (Done(1, "launch") /\ ~inv[1].fg /\ inv[1].saw = "exited")
    => (/\ inv[1].res = "spawn_failed"
        /\ inv[1].rport = NoPort /\ inv[1].exit = 1
        /\ files[inv[1].port] = NoFile)

C14_Witness ==
    /\ Done(1, "launch") /\ ~inv[1].fg /\ inv[1].saw = "exited"
    /\ inv[1].pre[inv[1].port] = NoFile
    /\ inv[1].unlinked = {inv[1].port}
    /\ files[inv[1].port] = NoFile

\* C15: when every port of the probed range is taken, launch returns failure,
\* has spawned nothing, and the record files are as they were.
C15_NoPortNoEffect ==
    (Done(1, "launch") /\ Ports \subseteq inv[1].bound0)
    => (/\ inv[1].res = "no_ports"
        /\ inv[1].rport = NoPort /\ inv[1].exit = 1
        /\ inv[1].spawned = {}
        /\ inv[1].unlinked = {}
        /\ files = inv[1].pre)

C15_Witness ==
    /\ Done(1, "launch") /\ Ports \subseteq inv[1].bound0
    /\ inv[1].res = "no_ports"
    /\ RecordCount(inv[1].pre) >= 1 /\ files = inv[1].pre

\* C16: a launch that finds at its port a record whose PID the liveness probe
\* reports running returns failure, spawns nothing, leaves every record as it
\* was and sends the recorded process nothing but the null probe.
C16_AlreadyRunningNoEffect ==
    (Done(1, "launch") /\ \E n \in inv[1].probes : n.answer)
    => (/\ inv[1].res = "already_running"
        /\ inv[1].rport = NoPort /\ inv[1].exit = 1
        /\ inv[1].spawned = {}
        /\ inv[1].unlinked = {} /\ files = inv[1].pre
        /\ inv[1].sigs = {} /\ inv[1].errs = {}
        /\ \A n \in inv[1].probes : is_process_running(procs, n.pid))

C16_Witness ==
    /\ Done(1, "launch") /\ inv[1].res = "already_running"
    /\ \E n \in inv[1].probes :
          /\ n.answer /\ n.port = inv[1].port
          /\ files[n.port] = PidText(n.pid)
          /\ procs[n.pid].kind = "viewer"

\* No record was created or altered by the command on show in slot 1.
NoRecordWritten == \A p \in Ports : files[p] \in {inv[1].pre[p], NoFile}

\* C17 as claimed: a foreground launch writes no record and, when the child
\* exits or an interrupt arrives, returns the port with no PID.
C17_ForegroundReturnsPort ==
    (Done(1, "launch") /\ inv[1].fg /\ inv[1].saw \in {"exit0", "exit1", "interrupt"})
    => (/\ NoRecordWritten /\ files[inv[1].port] = NoFile
        /\ inv[1].rport = inv[1].port /\ inv[1].rpid = NoPid)

\* C17 as amended: a foreground launch writes no record; it returns the port
\* with no PID when the child exits with status 0 or an interrupt arrives, and
\* failure (exit status 1) when the child exits with another status.
C17_ForegroundNoRecord ==
    (Done(1, "launch") /\ inv[1].fg)
    => (/\ NoRecordWritten
        /\ inv[1].spawned # {} => files[inv[1].port] = NoFile
        /\ inv[1].saw \in {"exit0", "interrupt"}
              => (/\ inv[1].rport = inv[1].port /\ inv[1].rpid = NoPid
                  /\ inv[1].exit = 0)
        /\ inv[1].saw = "exit1"
              => (/\ inv[1].rport = NoPort /\ inv[1].rpid = NoPid
                  /\ inv[1].exit = 1))

C17_Witness ==
    /\ Done(1, "launch") /\ inv[1].fg /\ inv[1].saw = "exit1"
    /\ inv[1].pre[inv[1].port] # NoFile /\ files[inv[1].port] = NoFile
    /\ inv[1].rport = NoPort /\ inv[1].exit = 1

\* The entries status owes for the probes that answered "running".
LiveEntries(v) == {<<n.pid, PortText(n.port)>> : n \in {m \in v.probes : m.answer}}

\* C18: status returns exactly the (pid, port) of the records whose PID the
\* probe found running, deletes every record that is malformed or whose PID is
\* not running, leaves the records of running PIDs as they were, and sends no
\* signal but the null probe.
C18_StatusExactlyLive ==
    Done(1, "status")
    => (/\ inv[1].res = "ok"
        /\ inv[1].viewers = LiveEntries(inv[1])
        /\ inv[1].sigs = {} /\ inv[1].errs = {}
        /\ \A p \in Ports :
              LET r == ParseInt(inv[1].pre[p])
              IN IF inv[1].pre[p] = NoFile THEN files[p] = NoFile
                 ELSE IF ~r.ok THEN files[p] = NoFile
                 ELSE /\ \E n \in inv[1].probes : n.port = p /\ n.pid = r.val
                      /\ \A n \in inv[1].probes :
                            n.port = p => (/\ n.pid = r.val
                                           /\ n.answer => files[p] = inv[1].pre[p]
                                           /\ ~n.answer => files[p] = NoFile))

C18_Witness ==
    /\ Done(1, "status")
    /\ \E n \in inv[1].probes : n.answer /\ files[n.port] = PidText(n.pid)
    /\ \E p \in Ports : inv[1].pre[p] # NoFile /\ files[p] = NoFile
    /\ Cardinality(inv[1].viewers) = 1

\* The ports of the range of the call that are free to bind.
FreeInRange ==
    {p \in call.start_port .. (call.start_port + call.max_attempts - 1) :
        p \notin extBound}

\* C19: find_available_port(start, n) returns the lowest bindable port of
\* [start, start+n), start itself when nothing is bound, and none exactly when
\* every port of the range is occupied.
C19_LowestFreePort ==
    call.returned
    => (/\ call.result = NoPort <=> FreeInRange = {}
        /\ FreeInRange # {}
              => (/\ call.result \in FreeInRange
                  /\ \A q \in FreeInRange : call.result <= q)
        /\ (extBound = {} /\ call.max_attempts > 0) => call.result = call.start_port)

C19_Witness ==
    /\ call.returned /\ call.max_attempts = MaxProbe
    /\ {call.start_port, call.start_port + 1} \subseteq extBound
    /\ call.result = call.start_port + 2

\* C20: the launch command exits with status 0 exactly when launch_server
\* returned a port (a background child alive at the check, a foreground child
\* that ended with status 0 or on an interrupt), and with status 1 on port
\* exhaustion, already running, and a child that exited or could not be started.
C20_LaunchExitStatus ==
    Done(1, "launch")
    => (/\ inv[1].exit \in {0, 1}
        /\ inv[1].exit = 0
              <=> (/\ inv[1].rport = inv[1].port /\ inv[1].port # NoPort
                   /\ \/ ~inv[1].fg /\ inv[1].saw = "alive" /\ inv[1].rpid = inv[1].pid
                      \/ inv[1].fg /\ inv[1].saw \in {"exit0", "interrupt"})
        /\ Ports \subseteq inv[1].bound0 => inv[1].exit = 1
        /\ (\E n \in inv[1].probes : n.answer) => inv[1].exit = 1
        /\ inv[1].saw \in {"exited", "exit1"} => inv[1].exit = 1
        /\ inv[1].spawned = {} => inv[1].exit = 1)

C20_Witness ==
    /\ Done(1, "launch") /\ ~inv[1].fg
    /\ inv[1].port # NoPort /\ inv[1].probes = {} /\ inv[1].spawned = {}
    /\ inv[1].res = "error" /\ inv[1].exit = 1

\* What the command with locals v tried to send: the signals delivered and
\* those os.kill refused, as <<port, pid, signal>>.
Attempts(v) == v.sigs \cup {<<e[1], e[2], e[3]>> : e \in v.errs}

\* Ports whose record's process took every signal kill sent it.
Stopped(v) ==
    Delivered(v, "SIGTERM")
       \ (Refused(v, "SIGKILL", "ESRCH") \cup Refused(v, "SIGKILL", "EPERM"))

\* C21: the kill command exits with status 0 if and only if at least one
\* targeted instance was counted as killed, and with status 1 otherwise.
C21_KillExitStatus ==
    Done(1, "kill")
    => (/\ inv[1].exit \in {0, 1}
        /\ inv[1].exit = 0 <=> inv[1].killed > 0
        /\ inv[1].exit = 0 <=> Stopped(inv[1]) # {})

C21_Witness ==
    /\ Done(1, "kill") /\ inv[1].exit = 0
    /\ inv[1].killed = 1 /\ inv[1].failed = 1

\* C22: kill sends SIGKILL to a PID only when it has sent that PID SIGTERM for
\* the same record and the probe made after the wait answered that the process
\* is still alive; after a probe that answered "not running" no SIGKILL is sent.
C22_ForceOnlyAfterProbe ==
    [][\A t \in Attempts(inv'[1]) \ Attempts(inv[1]) :
          t[3] = "SIGKILL"
          => (/\ <<t[1], t[2], "SIGTERM">> \in inv[1].sigs
              /\ \E n \in inv[1].probes : n.port = t[1] /\ n.pid = t[2] /\ n.answer
              /\ \A n \in inv[1].probes : n.port = t[1] => n.answer)]_vars

C22_Witness ==
    /\ Done(1, "kill")
    /\ \E t \in inv[1].sigs : t[3] = "SIGKILL"
    /\ \E n \in inv[1].probes :
          /\ ~n.answer
          /\ <<n.port, n.pid, "SIGTERM">> \in inv[1].sigs
          /\ <<n.port, n.pid, "SIGKILL">> \notin Attempts(inv[1])

\* C23: in a kill of every record, a signal refused for another reason than
\* "process not found" or a malformed record does not end the batch: every
\* record is deleted and every parsable record's PID is sent SIGTERM.
C23_BatchGoesOn ==
    (/\ Done(1, "kill") /\ inv[1].kport \in {NoPort, 0}
     /\ \/ Refused(inv[1], "SIGTERM", "EPERM") # {}
        \/ Refused(inv[1], "SIGKILL", "EPERM") # {}
        \/ \E p \in Ports : inv[1].pre[p] # NoFile /\ ~ParseInt(inv[1].pre[p]).ok)
    => (/\ inv[1].res = "ok"
        /\ \A p \in Ports :
              inv[1].pre[p] # NoFile
              => (/\ files[p] = NoFile /\ p \in inv[1].unlinked
                  /\ ParseInt(inv[1].pre[p]).ok
                        => <<p, ParseInt(inv[1].pre[p]).val, "SIGTERM">>
                              \in Attempts(inv[1])))

C23_Witness ==
    /\ Done(1, "kill") /\ inv[1].kport = NoPort
    /\ inv[1].pre[BasePort] # NoFile /\ ~ParseInt(inv[1].pre[BasePort]).ok
    /\ (BasePort + 1) \in Stopped(inv[1])
    /\ inv[1].killed = 1 /\ inv[1].failed = 1
    /\ RecordCount(files) = 0

\* C24: a launch that finds at its port a record that is malformed or whose PID
\* the probe reports not running deletes it and goes on to start the child; a
\* record at that port afterwards holds the PID of the child, and a background
\* launch that succeeds leaves that record.
C24_StaleRecordReplaced ==
    (/\ Done(1, "launch") /\ inv[1].port # NoPort
     /\ inv[1].pre[inv[1].port] # NoFile
     /\ \/ ~ParseInt(inv[1].pre[inv[1].port]).ok
        \/ \E n \in inv[1].probes : n.port = inv[1].port /\ ~n.answer)
    => (/\ inv[1].port \in inv[1].unlinked
        /\ inv[1].res \notin {"already_running", "no_ports"}
        /\ files[inv[1].port] # NoFile
              => (/\ files[inv[1].port] = PidText(inv[1].pid)
                  /\ inv[1].pid \in inv[1].spawned)
        /\ (inv[1].res = "ok" /\ ~inv[1].fg)
              => files[inv[1].port] = PidText(inv[1].rpid))

C24_Witness ==
    /\ Done(1, "launch") /\ ~inv[1].fg /\ inv[1].res = "ok"
    /\ inv[1].pre[inv[1].port] = <<>>
    /\ files[inv[1].port] = PidText(inv[1].rpid)
    /\ procs[inv[1].rpid].kind = "viewer"

\* C25: a background launch whose record at the chosen port disappears between
\* its existence check, its read and its delete (a concurrent command removed
\* it) does not end on an unhandled error.
C25_VanishedRecordTolerated ==
    \A i \in Invs :
        (/\ Done(i, "launch") /\ ~inv[i].fg
         /\ inv[i].port # NoPort /\ inv[i].port \notin inv[i].unlinked
         /\ files[inv[i].port] = NoFile)
        => inv[i].res # "crash"

\* C26: a background launch that meets an exception in the spawn or in the
\* record write returns failure, and no record for its port exists on return.
C26_SpawnErrorCleansRecord ==
    (/\ Done(1, "launch") /\ ~inv[1].fg /\ inv[1].saw = ""
     /\ inv[1].res \notin {"no_ports", "already_running", "crash"})
    => (/\ inv[1].res = "error"
        /\ inv[1].rport = NoPort /\ inv[1].exit = 1
        /\ files[inv[1].port] = NoFile)

C26_Witness ==
    /\ Done(1, "launch") /\ ~inv[1].fg /\ inv[1].saw = ""
    /\ inv[1].res = "error" /\ inv[1].spawned # {}
    /\ inv[1].pre[inv[1].port] = NoFile /\ inv[1].port \in inv[1].unlinked
    /\ files[inv[1].port] = NoFile

\* C27: a record whose PID names no running process when launch, status or kill
\* reads it does not outlive that command: its file is gone on return, or holds
\* the PID of the child the launch started in its place.
C27_DeadRecordNeverSurvives ==
    \A op \in {"launch", "status", "kill"} :
        Done(1, op)
        => (/\ \A n \in inv[1].probes :
                  ~n.running
                  => IF op = "launch"
                     THEN /\ n.port \in inv[1].unlinked
                          /\ files[n.port] # NoFile
                                => (/\ files[n.port] = PidText(inv[1].pid)
                                    /\ inv[1].pid \in inv[1].spawned)
                     ELSE files[n.port] = NoFile
            /\ \A p \in Refused(inv[1], "SIGTERM", "ESRCH") : files[p] = NoFile)

C27_Witness ==
    /\ Done(1, "kill")
    /\ \E n \in inv[1].probes :
          /\ ~n.running /\ inv[1].pre[n.port] = PidText(n.pid)
          /\ files[n.port] = NoFile
    /\ inv[1].killed = 1 /\ inv[1].failed = 0

\* C28: the probe answers "running" exactly when the null signal succeeds; a
\* PID that does not exist and a process that may not be signalled both count
\* as not running, and launch and status delete the record of either.
C28_ProbeIsNullSignal ==
    \A op \in {"launch", "status", "kill"} :
        Done(1, op)
        => \A n \in inv[1].probes :
              /\ n.answer <=> n.outcome = "ok"
              /\ (n.outcome \in {"ESRCH", "EPERM"} /\ op # "kill")
                    => n.port \in inv[1].unlinked
              /\ (n.outcome \in {"ESRCH", "EPERM"} /\ op = "status")
                    => (/\ files[n.port] = NoFile
                        /\ \A e \in inv[1].viewers : e[2] # PortText(n.port))

C28_Witness ==
    /\ Done(1, "status")
    /\ \E n \in inv[1].probes :
          /\ n.outcome = "EPERM" /\ n.running /\ ~n.answer
          /\ inv[1].pre[n.port] = PidText(n.pid)
          /\ files[n.port] = NoFile

\* The candidates of the call under way.
CallCandidates == Candidates(call.system, call.env)

\* C29: get_pid_directory returns the first candidate, fallback last, for which
\* mkdir, touch and unlink all succeed; a candidate failing a step is skipped;
\* when every candidate fails it returns fallback.
C29_FirstUsableDirectory ==
    call.returned
    => LET c == CallCandidates
           ok == {k \in 1..Len(c) : call.fs[c[k]] = "ok"}
       IN /\ c[Len(c)] = Fallback
          /\ ok = {} => call.result = Fallback
          /\ ok # {} => \E k \in ok : /\ call.result = c[k]
                                      /\ \A j \in 1..(k - 1) : j \notin ok

C29_Witness ==
    /\ call.returned /\ call.system = "Linux"
    /\ call.fs["~/.cache/aigon/pids"] = "mkdir"
    /\ call.fs["~/.local/share/aigon/pids"] = "unlink"
    /\ call.fs["/tmp/aigon-fileserver"] = "ok"
    /\ call.result = "/tmp/aigon-fileserver"

\* C30: a record whose text is not a non-negative decimal number (empty, not a
\* number, negative) is never passed on: no probe answers "running" for the
\* value read from it, no signal is delivered for it, status lists no such PID.
C30_MalformedNeverUsed ==
    \A op \in {"launch", "status", "kill"} :
        Done(1, op)
        => (/\ \A n \in inv[1].probes : n.answer => n.pid >= 0
            /\ \A t \in inv[1].sigs : t[2] >= 0
            /\ \A e \in inv[1].viewers : e[1] >= 0)

C33_NeverWaitsForAnother ==
    /\ (inv[1].pc \notin {"idle", "done"} /\ ~(inv[1].op = "launch" /\ inv[1].fg))
       => ENABLED Continue(1)
    /\ \A p \in Ports : Cardinality({t \in inv[1].sigs : t[1] = p}) <= 2

\* C34: find_available_port returns a port of the probed range or the "no port
\* available" result for every start port, also when the range runs past the
\* largest TCP port: no call ends with an exception.
C34_NoUnhandledError ==
    call.returned
    => \/ call.result = NoPort
       \/ call.result \in call.start_port .. (call.start_port + call.max_attempts - 1)

\* C36: kill signals only viewers: when it has just delivered SIGTERM for a
\* record, the process that took it is a viewer started by launch (or has gone
\* since), never an unrelated process that came to own the recorded PID.
C36_OnlyViewersSignalled ==
    (/\ inv[1].op = "kill" /\ inv[1].pc = "k_probe"
     /\ <<Head(inv[1].todo), inv[1].pid, "SIGTERM">> \in inv[1].sigs
     /\ inv[1].pid \in PIDs)
    => procs[inv[1].pid].kind \in {"viewer", "zombie", "free"}

\* C37: when a background launch that spawned a child returns failure, every
\* child it spawned that is still running has a record holding its PID.
C37_FailedLaunchLeavesNoStray ==
    (Done(1, "launch") /\ ~inv[1].fg /\ inv[1].rport = NoPort)
    => \A p \in inv[1].spawned :
          procs[p].kind = "viewer" => files[procs[p].port] = PidText(p)

\* C38: a foreground launch whose child exited with a non-zero status returns
\* failure and the command exits 1; one whose child exited with status 0, or
\* that was interrupted, returns its port with no PID and the command exits 0.
C38_ForegroundExitStatus ==
    (Done(1, "launch") /\ inv[1].fg)
    => (/\ inv[1].saw = "exit1"
           => (/\ inv[1].res = "fg_failed"
               /\ inv[1].rport = NoPort /\ inv[1].exit = 1)
        /\ inv[1].saw \in {"exit0", "interrupt"}
           => (/\ inv[1].rport = inv[1].port /\ inv[1].port # NoPort
               /\ inv[1].rpid = NoPid /\ inv[1].exit = 0))

C38_Witness ==
    /\ Done(1, "launch") /\ inv[1].fg /\ inv[1].saw = "interrupt"
    /\ inv[1].res = "interrupted"
    /\ inv[1].rport = inv[1].port /\ inv[1].rpid = NoPid /\ inv[1].exit = 0
    /\ inv[1].spawned # {}

\* C35: a record file comes to exist, or changes, only in a background launch
\* that has spawned its child: it is the record of the port that child was
\* given, and it holds the decimal PID the spawn returned (or nothing yet, when
\* the write failed half-way); no other step creates or rewrites a record.
C35_RecordNamesSpawnedChild ==
    [][\A p \in Ports :
          (files'[p] # files[p] /\ files'[p] # NoFile)
          => LET v == inv[1]
             IN /\ v.op = "launch" /\ ~v.fg /\ v.pc = "l_write"
                /\ v.pid \in v.spawned
                /\ procs[v.pid].kind \in {"viewer", "zombie"}
                /\ procs[v.pid].parent = 1
                /\ procs[v.pid].port = p /\ v.port = p
                /\ files'[p] \in {PidText(v.pid), <<>>}]_vars

C35_Witness ==
    /\ Done(1, "launch") /\ ~inv[1].fg /\ inv[1].res = "ok"
    /\ inv[1].port = BasePort + 1
    /\ inv[1].pre[inv[1].port] \notin {NoFile, PidText(inv[1].pid)}
    /\ files[inv[1].port] = PidText(inv[1].pid)
    /\ procs[inv[1].pid].kind = "viewer" /\ procs[inv[1].pid].port = inv[1].port
    /\ inv[1].spawned = {inv[1].pid}

\* C31: a kill given no port does, whatever kill_all was, what the targets
\* computed with the opposite kill_all prescribe: those targets are every record
\* of the directory, each is deleted, a signal is tried for each readable one
\* and for nothing else, and the count is that of the processes stopped.
C31_KillAllFlagIgnored ==
    (Done(1, "kill") /\ inv[1].kport = NoPort)
    => LET v == inv[1]
           flipped == KillTargets(v.pre, NoPort, ~v.kall)
           targets == {flipped[k] : k \in 1..Len(flipped)}
       IN /\ flipped = KillTargets(v.pre, NoPort, v.kall)
          /\ targets = {p \in Ports : v.pre[p] # NoFile}
          /\ \A p \in targets :
                /\ files[p] = NoFile
                /\ ParseInt(v.pre[p]).ok
                   => \E t \in Attempts(v) : t[1] = p /\ t[3] = "SIGTERM"
          /\ \A t \in Attempts(v) : t[1] \in targets
          /\ v.unlinked \subseteq targets
          /\ v.killed = Cardinality(Stopped(v))

C31_Witness ==
    /\ Done(1, "kill") /\ inv[1].kport = NoPort /\ ~inv[1].kall
    /\ RecordCount(inv[1].pre) = 2
    /\ Cardinality(Delivered(inv[1], "SIGTERM")) = 2
    /\ inv[1].killed = 2
    /\ RecordCount(files) = 0

====
